---- MODULE Spec2Model ----
(***************************************************************************)
(* Bare-metal fixed-point MLP inference (src/inference_bare.c): the math   *)
(* helpers, the weight packer, the quantization kernels, the classifiers   *)
(* and the batch loop of main with its accelerator driver.                 *)
(*                                                                         *)
(* C integers are modelled at their width.  TLC's integers are 32-bit, so  *)
(* int32_t values are TLC integers with explicit wrap-around, and the      *)
(* uint64_t/uint32_t temporaries of soft_div, which reach 2^31 and 2^62,   *)
(* are little-endian tuples of four 16-bit limbs.                          *)
(***************************************************************************)
EXTENDS Integers, Sequences, FiniteSets, TLC

VARIABLES
  call,        \* the last helper call made: its arguments and what it returned
  pc,          \* main: the statement main is at
  N,           \* main: NUM_TEST_IMAGES (test_images.h)
  i,           \* main: the batch loop's index, line 450
  batch,       \* main: real samples of the current batch, line 451
  in_ptrs,     \* main: the sample each of the 4 lanes points at, lines 454-460
  correct,     \* main: the tally, line 449
  layer,       \* driver: which layer_dense_4x4 call is running (1 or 2), 0 outside
  blk,         \* driver: the tile index of layer_dense_4x4, line 196
  cfg,         \* driver: the configuration registers written for the current tile
  regs,        \* accelerator: the MMIO configuration registers' values
  done,        \* accelerator: STATUS bit 1
  full,        \* accelerator: STATUS bit 2
  busy,        \* accelerator: a started tile has not completed
  packs,       \* history: how often each packed weight buffer was filled
  batches,     \* history: batches begun
  tiles,       \* history: START writes (tiles issued)
  nwrites,     \* history: accelerator register writes
  cmps,        \* history: the prediction-versus-label comparisons, in order
  stages,      \* history: the stages the current batch has run, in order
  tohost       \* the values written to CSR 0x51e, in order

vars == <<call, pc, N, i, batch, in_ptrs, correct, layer, blk, cfg, regs,
          done, full, busy, packs, batches, tiles, nwrites, cmps, stages,
          tohost>>

mainVars == <<pc, N, i, batch, in_ptrs, correct, layer, blk, cfg, regs,
              done, full, busy, packs, batches, tiles, nwrites, cmps, stages,
              tohost>>

(***************************************************************************)
(* int32_t arithmetic                                                      *)
(***************************************************************************)
INT32_MAX == 2147483647
INT32_MIN == -INT32_MAX - 1

\* a + b on int32_t, as the RV32 add instruction leaves it (two's complement
\* wrap-around); the sums are formed so that no intermediate leaves 32 bits.
Add32(a, b) ==
  IF a > 0 /\ b > INT32_MAX - a THEN (a + INT32_MIN) + (b + INT32_MIN)
  ELSE IF a < 0 /\ b < INT32_MIN - a THEN (a - INT32_MIN) + (b - INT32_MIN)
  ELSE a + b

\* -x on int32_t: -INT32_MIN wraps to INT32_MIN (RV32 neg).
Neg32(x) == IF x = INT32_MIN THEN INT32_MIN ELSE -x

\* v >> k on int32_t, 0 <= k <= 31: arithmetic shift, that is floor division
\* by 2^k; for k = 31 (2^31 is no int32_t) only the sign is left.
Sar32(v, k) == IF k >= 31 THEN (IF v < 0 THEN -1 ELSE 0) ELSE v \div (2 ^ k)

\* ~m on int32_t.
Not32(m) == -m - 1

\* v & m for a mask m that is all ones (-1) or all zeros (0), the only masks
\* the code forms (~(v >> 31)).
And32Mask(v, m) == IF m = -1 THEN v ELSE 0

\* (int8_t)x: the low 8 bits, sign-extended.
ToInt8(x) == ((x + 128) % 256) - 128

\* (uint8_t)x of an int8_t x: the low 8 bits, zero-extended.
ToUint8(x) == x % 256

(***************************************************************************)
(* uint64_t / uint32_t as four 16-bit limbs, least significant first       *)
(***************************************************************************)
LIMB == 2 ^ 16

\* (uint64_t)n for 0 <= n < 2^31.
U64(n) == <<n % LIMB, n \div LIMB, 0, 0>>

\* x + 1 on limbs (used for the magnitude of a negative int32_t).
RECURSIVE IncFrom(_, _)
IncFrom(x, p) ==
  IF p > 4 THEN x
  ELSE IF x[p] = LIMB - 1 THEN IncFrom([x EXCEPT ![p] = 0], p + 1)
  ELSE [x EXCEPT ![p] = x[p] + 1]

\* (uint64_t)(-(int64_t)n) for n < 0: the magnitude, up to 2^31.
Mag64(n) == IncFrom(U64(-(n + 1)), 1)

\* x << s on limbs, 0 <= s <= 31: every limb is shifted by s % 16 inside 32
\* bits, its low 16 bits stay and the rest moves to the next limb; then the
\* limbs move up by s \div 16 places.
Shl64(x, s) ==
  LET m == 2 ^ (s % 16)
      y1 == x[1] * m
      y2 == x[2] * m
      y3 == x[3] * m
      y4 == x[4] * m
      z1 == y1 % LIMB
      z2 == (y2 % LIMB) + (y1 \div LIMB)
      z3 == (y3 % LIMB) + (y2 \div LIMB)
      z4 == (y4 % LIMB) + (y3 \div LIMB)
  IN  IF s < 16 THEN <<z1, z2, z3, z4>> ELSE <<0, z1, z2, z3>>

\* x <= y, unsigned, from the most significant limb down.
Leq64(x, y) ==
  IF x[4] # y[4] THEN x[4] < y[4]
  ELSE IF x[3] # y[3] THEN x[3] < y[3]
  ELSE IF x[2] # y[2] THEN x[2] < y[2]
  ELSE x[1] <= y[1]

\* x - y on limbs with borrow (modulo 2^64).
Sub64(x, y) ==
  LET d1 == x[1] - y[1]
      d2 == x[2] - y[2] - (IF d1 < 0 THEN 1 ELSE 0)
      d3 == x[3] - y[3] - (IF d2 < 0 THEN 1 ELSE 0)
      d4 == x[4] - y[4] - (IF d3 < 0 THEN 1 ELSE 0)
  IN  <<d1 % LIMB, d2 % LIMB, d3 % LIMB, d4 % LIMB>>

\* q | (1u << b) on limbs.
SetBit(q, b) ==
  LET p == (b \div 16) + 1
      m == 2 ^ (b % 16)
  IN  IF (q[p] \div m) % 2 = 1 THEN q ELSE [q EXCEPT ![p] = q[p] + m]

\* (int32_t)q of a uint32_t q held in limbs 1 and 2: the same 32 bits, signed.
ToInt32(q) ==
  IF q[2] >= LIMB \div 2 THEN (q[2] - LIMB) * LIMB + q[1]
  ELSE q[2] * LIMB + q[1]

(***************************************************************************)
(* soft_div, lines 230-246                                                 *)
(***************************************************************************)
\* The long-division loop, lines 238-244, on the loop's state
\* s = [a, q, iters]: k runs 31..0.
RECURSIVE soft_div_loop(_, _, _)
soft_div_loop(s, b, k) ==
  IF k < 0 THEN s
  ELSE IF Leq64(Shl64(b, k), s.a)
  THEN soft_div_loop([a |-> Sub64(s.a, Shl64(b, k)), q |-> SetBit(s.q, k),
                      iters |-> s.iters + 1], b, k - 1)
  ELSE soft_div_loop([a |-> s.a, q |-> s.q, iters |-> s.iters + 1], b, k - 1)

\* Faulty variant of soft_div_neg: the sign of the numerator alone.
soft_div_neg_numer(numer, denom) == numer < 0

\* The sign of the result, line 233.
soft_div_neg(numer, denom) == (numer < 0) # (denom < 0)

\* The final conversion, line 245.  -(int32_t)q overflows for q = 2^31
\* (numer = INT32_MIN, denom = 1); the RV32 build negates with wrap-around.
soft_div_result(neg, q) == IF neg THEN Neg32(ToInt32(q)) ELSE ToInt32(q)

\* Faulty variant of soft_div_run: division by zero yields -1, as the RISC-V DIV
\* instruction does.
soft_div_run_div(numer, denom) ==
  IF denom = 0 THEN [ret |-> -1, iters |-> 0]
  ELSE LET a == IF numer < 0 THEN Mag64(numer) ELSE U64(numer)
           b == IF denom < 0 THEN Mag64(denom) ELSE U64(denom)
           r == soft_div_loop([a |-> a, q |-> U64(0), iters |-> 0], b, 31)
       IN  [ret |-> soft_div_result(soft_div_neg(numer, denom), r.q),
            iters |-> r.iters]

\* soft_div with the number of loop iterations it ran.
soft_div_run(numer, denom) ==
  IF denom = 0 THEN [ret |-> 0, iters |-> 0]
  ELSE LET neg == soft_div_neg(numer, denom)
           a == IF numer < 0 THEN Mag64(numer) ELSE U64(numer)
           b == IF denom < 0 THEN Mag64(denom) ELSE U64(denom)
           r == soft_div_loop([a |-> a, q |-> U64(0), iters |-> 0], b, 31)
       IN  [ret |-> soft_div_result(neg, r.q), iters |-> r.iters]

soft_div(numer, denom) == soft_div_run(numer, denom).ret

(***************************************************************************)
(* Helper calls are checked one call at a time: `call` holds the function  *)
(* and its arguments (st = "args"), the call action adds what the function *)
(* returned and left in memory (st = "ret"); main stays where it is.       *)
(***************************************************************************)
NoCall == [fn |-> "none", st |-> "none"]

Returned(fn) == call.fn = fn /\ call.st = "ret"

MainIdle ==
  /\ pc = "idle" /\ N = 0 /\ i = 0 /\ batch = 0 /\ in_ptrs = <<>>
  /\ correct = 0 /\ layer = 0 /\ blk = 0 /\ cfg = <<>> /\ regs = <<>>
  /\ done = FALSE /\ full = FALSE /\ busy = FALSE
  /\ packs = <<>> /\ batches = 0 /\ tiles = 0 /\ nwrites = 0
  /\ cmps = <<>> /\ stages = <<>> /\ tohost = <<>>


\* ---- soft_div ----
DivRange == 6

\* Operands: small values of both signs, the int32_t extremes, and the
\* numerator the quantization kernel divides (127 << 16).
DivOperands ==
  (-DivRange .. DivRange)
    \cup {INT32_MIN, INT32_MIN + 1, INT32_MAX, INT32_MAX - 1,
          127 * (2 ^ 16), -(127 * (2 ^ 16)), 2 ^ 16, 2 ^ 30, -(2 ^ 30)}

InitDiv ==
  /\ call \in [fn : {"soft_div"}, st : {"args"},
                numer : DivOperands, denom : DivOperands]
  /\ MainIdle

CallSoftDiv ==
  /\ call.fn = "soft_div" /\ call.st = "args"
  /\ \E r \in {soft_div_run(call.numer, call.denom)} :
       call' = [fn |-> "soft_div", st |-> "ret", numer |-> call.numer,
                denom |-> call.denom, ret |-> r.ret, iters |-> r.iters]
  /\ UNCHANGED mainVars

SpecDiv == InitDiv /\ [][CallSoftDiv]_vars

\* The truncating quotient a / b for b > 0, from floor division.
TruncQuotPos(a, b) ==
  IF a >= 0 \/ a % b = 0 THEN a \div b ELSE (a \div b) + 1

\* The truncating quotient a / b (b # 0) reduced modulo 2^32 to int32_t:
\* only INT32_MIN / -1 = 2^31 is out of range, and becomes INT32_MIN.
TruncQuot32(a, b) ==
  IF b > 0 THEN TruncQuotPos(a, b)
  ELSE IF b = INT32_MIN THEN (IF a = INT32_MIN THEN 1 ELSE 0)
  ELSE Neg32(TruncQuotPos(a, -b))

\* -|x|, which is representable for every int32_t.
NegAbs(x) == IF x > 0 THEN -x ELSE x

\* The exact quotient a / b is non-zero: |a| >= |b|.
QuotNonZero(a, b) == NegAbs(a) <= NegAbs(b)

\* C3: soft_div(numer, 0) returns 0 for every numer and runs no iteration
\* of the long-division loop.
C3_DivByZero ==
  (Returned("soft_div") /\ call.denom = 0) => (call.ret = 0 /\ call.iters = 0)

C3_Witness ==
  Returned("soft_div") /\ call.denom = 0 /\ call.numer = INT32_MIN

\* C4 as stated: for b # 0 the result is the truncating quotient (modulo
\* 2^32) and it is negative exactly when the quotient is non-zero and the
\* signs of a and b differ.
C4_Original ==
  (Returned("soft_div") /\ call.denom # 0) =>
     /\ call.ret = TruncQuot32(call.numer, call.denom)
     /\ (call.ret < 0) <=>
          (QuotNonZero(call.numer, call.denom)
             /\ ((call.numer < 0) # (call.denom < 0)))

\* C4 amended: for b # 0 the result is the truncating quotient modulo 2^32;
\* it is negative exactly when the quotient is non-zero and the signs
\* differ, except for INT32_MIN / -1, whose quotient 2^31 wraps to the
\* negative INT32_MIN although the signs agree.
C4_TruncQuot ==
  (Returned("soft_div") /\ call.denom # 0) =>
     /\ call.ret = TruncQuot32(call.numer, call.denom)
     /\ ~(call.numer = INT32_MIN /\ call.denom = -1) =>
          ((call.ret < 0) <=>
             (QuotNonZero(call.numer, call.denom)
                /\ ((call.numer < 0) # (call.denom < 0))))
     /\ (call.numer = INT32_MIN /\ call.denom = -1) => call.ret = INT32_MIN

C4_Witness ==
  /\ Returned("soft_div") /\ call.numer = INT32_MIN /\ call.denom = 1
  /\ call.ret = INT32_MIN /\ call.iters = 32

(***************************************************************************)
(* Classifier: argmax, add_bias, add_bias_and_argmax_4                     *)
(* C arrays are sequences: the C element x[j] is At(x, j).                 *)
(***************************************************************************)
At(x, j) == x[j + 1]

\* Faulty variant of Greater: >= lets the last maximal index win.
GreaterEq(v, max_val) == v >= max_val

\* The strict-greater comparison of every argmax scan (lines 345, 349, 356,
\* 392-404 and inference.c line 121).
Greater(v, max_val) == v > max_val

\* argmax of inference_bare.c, lines 332-363: two interleaved scans, one over
\* the even indices (max_idx0/max_val0) and one over the odd ones.
RECURSIVE argmax_loop(_, _, _, _)
argmax_loop(x, size, k, s) ==
  IF k + 1 < size
  THEN LET v0 == At(x, k)
           v1 == At(x, k + 1)
           s0 == IF Greater(v0, s.max_val0)
                 THEN [s EXCEPT !.max_val0 = v0, !.max_idx0 = k] ELSE s
           s1 == IF Greater(v1, s0.max_val1)
                 THEN [s0 EXCEPT !.max_val1 = v1, !.max_idx1 = k + 1] ELSE s0
       IN  argmax_loop(x, size, k + 2, s1)
  ELSE IF k < size
  THEN LET v == At(x, k)
       IN  IF Greater(v, s.max_val0)
           THEN [s EXCEPT !.max_val0 = v, !.max_idx0 = k] ELSE s
  ELSE s

\* The merge of the two scans, line 362.
argmax_merge(s) == IF s.max_val1 > s.max_val0 THEN s.max_idx1 ELSE s.max_idx0

argmax(x, size) ==
  IF size <= 1 THEN 0
  ELSE argmax_merge(argmax_loop(x, size, 2,
         [max_idx0 |-> 0, max_idx1 |-> 1,
          max_val0 |-> At(x, 0), max_val1 |-> At(x, 1)]))

\* argmax of riscv-ml-inference/inference.c, lines 117-127: one linear scan.
RECURSIVE argmax_ref_loop(_, _, _, _, _)
argmax_ref_loop(x, size, k, max_idx, max_val) ==
  IF k >= size THEN max_idx
  ELSE IF Greater(At(x, k), max_val)
       THEN argmax_ref_loop(x, size, k + 1, k, At(x, k))
       ELSE argmax_ref_loop(x, size, k + 1, max_idx, max_val)

argmax_ref(x, size) == argmax_ref_loop(x, size, 1, 0, At(x, 0))

\* add_bias, lines 320-330: out[j] += bias[j] for j < size (unrolled by 4,
\* then the remainder); elements at size and beyond are left alone.
add_bias(out, bias, size) ==
  [j \in 1..Len(out) |-> IF j <= size THEN Add32(out[j], bias[j]) ELSE out[j]]

\* add_bias_and_argmax_4, lines 365-414.  x is the tuple of the four vectors
\* x0..x3; the state carries the updated vectors, max_idx0..3 and max_val0..3.
RECURSIVE add_bias_and_argmax_4_loop(_, _, _, _)
add_bias_and_argmax_4_loop(bias, size, k, s) ==
  IF k >= size THEN s
  ELSE LET b == At(bias, k)
           v == [l \in 1..4 |-> Add32(At(s.x[l], k), b)]
           hit == [l \in 1..4 |-> Greater(v[l], s.max_val[l])]
       IN  add_bias_and_argmax_4_loop(bias, size, k + 1,
             [x |-> [l \in 1..4 |-> [s.x[l] EXCEPT ![k + 1] = v[l]]],
              max_val |-> [l \in 1..4 |-> IF hit[l] THEN v[l] ELSE s.max_val[l]],
              max_idx |-> [l \in 1..4 |-> IF hit[l] THEN k ELSE s.max_idx[l]]])

\* Returns [x |-> the four vectors with the bias added, pred |-> pred0..3].
add_bias_and_argmax_4(x, bias, size) ==
  LET first == [l \in 1..4 |-> Add32(At(x[l], 0), At(bias, 0))]
      s == add_bias_and_argmax_4_loop(bias, size, 1,
             [x |-> [l \in 1..4 |-> [x[l] EXCEPT ![1] = first[l]]],
              max_val |-> first,
              max_idx |-> [l \in 1..4 |-> 0]])
  IN  [x |-> s.x, pred |-> s.max_idx]

\* ---- argmax ----
MaxArgLen == 4

ArgValues == {INT32_MIN, 2, 5, 9, INT32_MAX}

ArgVectors == UNION {[1..n -> ArgValues] : n \in 1..MaxArgLen}

InitArgmax ==
  /\ \E fn \in {"argmax", "argmax_ref"}, x \in ArgVectors :
       call = [fn |-> fn, st |-> "args", x |-> x, size |-> Len(x)]
  /\ MainIdle

CallArgmax ==
  /\ call.fn = "argmax" /\ call.st = "args"
  /\ call' = [fn |-> "argmax", st |-> "ret", x |-> call.x, size |-> call.size,
              ret |-> argmax(call.x, call.size)]
  /\ UNCHANGED mainVars

CallArgmaxRef ==
  /\ call.fn = "argmax_ref" /\ call.st = "args"
  /\ call' = [fn |-> "argmax_ref", st |-> "ret", x |-> call.x,
              size |-> call.size, ret |-> argmax_ref(call.x, call.size)]
  /\ UNCHANGED mainVars

SpecArgmax == InitArgmax /\ [][CallArgmax \/ CallArgmaxRef]_vars

\* The smallest index of x[0..size-1] that holds the maximum.
FirstMaxIndex(x, size) ==
  CHOOSE j \in 0..(size - 1) :
    /\ \A k \in 0..(size - 1) : At(x, k) <= At(x, j)
    /\ \A k \in 0..(j - 1) : At(x, k) < At(x, j)

\* C1: argmax(x, size) of inference_bare.c returns the smallest index holding
\* the maximum, for every vector of size >= 1; for [5, 9, 9, 2] that is 1.
C1_ArgmaxFirstMax ==
  Returned("argmax") => call.ret = FirstMaxIndex(call.x, call.size)

\* The linear scan of inference.c does return the first maximal index.
C1_RefFirstMax ==
  Returned("argmax_ref") => call.ret = FirstMaxIndex(call.x, call.size)

\* The spec's own example, on which the two-scan argmax answers 2.
C1_Example ==
  (Returned("argmax") /\ call.x = <<5, 9, 9, 2>>) => call.ret = 1

\* ---- add_bias_and_argmax_4 ----
MaxLaneLen == 2

LaneValues == {0, 1}

BiasValues == {0, 1}

InitArgmax4 ==
  /\ \E n \in 1..MaxLaneLen :
       call \in [fn : {"add_bias_and_argmax_4"}, st : {"args"},
                 x : [1..4 -> [1..n -> LaneValues]],
                 bias : [1..n -> BiasValues], size : {n}]
  /\ MainIdle

CallArgmax4 ==
  /\ call.fn = "add_bias_and_argmax_4" /\ call.st = "args"
  /\ \E r \in {add_bias_and_argmax_4(call.x, call.bias, call.size)} :
       call' = [fn |-> "add_bias_and_argmax_4", st |-> "ret", x |-> call.x,
                bias |-> call.bias, size |-> call.size,
                xout |-> r.x, pred |-> r.pred]
  /\ UNCHANGED mainVars

SpecArgmax4 == InitArgmax4 /\ [][CallArgmax4]_vars

\* C2: each lane's prediction is the smallest index at which that lane's
\* x[i] + bias[i] is maximal; it is a function of that lane's vector and the
\* bias alone, and the lane's vector is left holding the sums.
C2_LaneFirstMax ==
  Returned("add_bias_and_argmax_4") =>
    \A l \in 1..4 :
      LET sum == [j \in 1..call.size |-> Add32(call.x[l][j], call.bias[j])]
      IN  /\ call.pred[l] = FirstMaxIndex(sum, call.size)
          /\ call.xout[l] = sum

\* Lanes 0 and 3 tie only once the bias is added (first index wins), lanes 1
\* and 2 have their maximum at index 1: the four predictions differ although
\* lanes 0 and 3 hold the same vector and lanes 1 and 2 the same maximum.
C2_Witness ==
  /\ Returned("add_bias_and_argmax_4") /\ call.size = 2
  /\ call.bias = <<0, 1>>
  /\ call.x = << <<1, 0>>, <<0, 0>>, <<1, 1>>, <<1, 0>> >>
  /\ call.pred = <<0, 1, 1, 0>>

(***************************************************************************)
(* WeightPacker: pack_weight_block, lines 122-147, and main's two packing  *)
(* loops, lines 432-442                                                    *)
(***************************************************************************)
\* Faulty variant of Pack32: lane 0 in the high byte.
Pack32Reversed(b0, b1, b2, b3) ==
  ToInt8(b0) * (2 ^ 24) + b1 * (2 ^ 16) + b2 * (2 ^ 8) + b3

\* (int32_t)(((uint32_t)b3 << 24) | ((uint32_t)b2 << 16) | ((uint32_t)b1 << 8)
\* | (uint32_t)b0) for bytes b0..b3 in 0..255, lines 143-145: the four bytes
\* are disjoint, so the OR is their sum, and the cast to int32_t makes the
\* top byte the signed one.
Pack32(b0, b1, b2, b3) ==
  ToInt8(b3) * (2 ^ 24) + b2 * (2 ^ 16) + b1 * (2 ^ 8) + b0

\* wj of lines 127-141: the weight of row n, column k as a byte, or 0 when
\* the row is not a row of the matrix.
pack_weight_lane(src_weights, n, K, N_total, k) ==
  IF n < N_total THEN ToUint8(At(src_weights, n * K + k)) ELSE 0

\* The source elements line 134-141 read for row n, column k.
pack_weight_reads(n, K, N_total, k) ==
  IF n < N_total THEN {n * K + k} ELSE {}

\* Returns [dst |-> the K words written to dst32[0..K-1],
\*          reads |-> the indices of src_weights that were read].
pack_weight_block(src_weights, n_start, K, N_total) ==
  [dst |-> [k1 \in 1..K |->
              Pack32(pack_weight_lane(src_weights, n_start + 0, K, N_total, k1 - 1),
                     pack_weight_lane(src_weights, n_start + 1, K, N_total, k1 - 1),
                     pack_weight_lane(src_weights, n_start + 2, K, N_total, k1 - 1),
                     pack_weight_lane(src_weights, n_start + 3, K, N_total, k1 - 1))],
   reads |-> UNION {pack_weight_reads(n_start + j, K, N_total, k) :
                      j \in 0..3, k \in 0..(K - 1)}]

\* One packing loop of main, lines 433-436 (rows = 128, K = 784, N_total =
\* 128) and 439-442 (rows = 12, K = 128, N_total = 10): block blk = r / 4 is
\* written at byte offset blk * (K * 4), that is at word blk * K.
RECURSIVE pack_weights_loop(_, _, _, _, _, _)
pack_weights_loop(src_weights, rows, K, N_total, r, acc) ==
  IF r >= rows THEN acc
  ELSE LET b == pack_weight_block(src_weights, r, K, N_total)
           at == (r \div 4) * K
       IN  pack_weights_loop(src_weights, rows, K, N_total, r + 4,
             [W_hw |-> [w \in 1..Len(acc.W_hw) |->
                          IF w > at /\ w <= at + K THEN b.dst[w - at]
                          ELSE acc.W_hw[w]],
              written |-> acc.written \o [k1 \in 1..K |-> at + k1 - 1],
              reads |-> acc.reads \cup b.reads])

\* The word no packing loop has written yet (a value no Pack32 yields).
Unwritten == "unwritten"

\* Returns [W_hw |-> the destination buffer as words, written |-> the word
\* indices written, in order, reads |-> the source indices read].
pack_weights(src_weights, rows, K, N_total) ==
  pack_weights_loop(src_weights, rows, K, N_total, 0,
    [W_hw |-> [w \in 1..((rows \div 4) * K) |-> Unwritten],
     written |-> <<>>, reads |-> {}])

\* ---- pack_weight_block ----
MaxPackRows == 5
MaxPackK == 2

\* int8_t weights; none is 0, so that a padded lane differs from a packed one.
WeightValues == {-128, 127}

\* The rows main's loop bound covers: N_total rounded up to a multiple of 4.
PaddedRows(n_total) == ((n_total + 3) \div 4) * 4

InitPack ==
  /\ \E N_total \in 1..MaxPackRows, K \in 1..MaxPackK :
       call \in [fn : {"pack_weights"}, st : {"args"},
                 src_weights : [1..(N_total * K) -> WeightValues],
                 N_total : {N_total}, K : {K}]
  /\ MainIdle

CallPackWeights ==
  /\ call.fn = "pack_weights" /\ call.st = "args"
  /\ \E r \in {pack_weights(call.src_weights, PaddedRows(call.N_total),
                             call.K, call.N_total)} :
       call' = [fn |-> "pack_weights", st |-> "ret",
                src_weights |-> call.src_weights, N_total |-> call.N_total,
                K |-> call.K, W_hw |-> r.W_hw, written |-> r.written,
                reads |-> r.reads]
  /\ UNCHANGED mainVars

SpecPack == InitPack /\ [][CallPackWeights]_vars

\* The byte in lane j (bits 8j..8j+7) of a packed word.
LaneByte(word, j) == (word \div (2 ^ (8 * j))) % 256

\* C5: for every block start n_start (a multiple of 4), lane j of output
\* word k of the block holds weight[(n_start + j) * K + k] when that row
\* exists and 0 when it does not; each block is K words, each written once;
\* no element of a row >= N_total is read.
C5_PackLayout ==
  Returned("pack_weights") =>
    LET K == call.K
        blocks == PaddedRows(call.N_total) \div 4
    IN  /\ \A b \in 0..(blocks - 1), k \in 0..(K - 1), j \in 0..3 :
             LET byte == LaneByte(At(call.W_hw, b * K + k), j)
                 n == 4 * b + j
             IN  IF n < call.N_total
                 THEN ToInt8(byte) = At(call.src_weights, n * K + k)
                 ELSE byte = 0
        /\ call.written = [w \in 1..(blocks * K) |-> w - 1]
        /\ \A r \in call.reads : r >= 0 /\ r < call.N_total * K

\* A short last block: 5 rows, so block 1 has one real row and three padded.
C5_Witness ==
  /\ Returned("pack_weights") /\ call.N_total = 5 /\ call.K = 2
  /\ call.src_weights = <<127, -128, -128, 127, 127, 127, -128, -128, 127, -128>>
  /\ LaneByte(At(call.W_hw, 2), 0) = 127
  /\ LaneByte(At(call.W_hw, 3), 0) = 128
  /\ LaneByte(At(call.W_hw, 3), 1) = 0

(***************************************************************************)
(* QuantizationKernel: fused_bias_relu_rescale, lines 248-266, and         *)
(* fused_bias_relu_rescale_4, lines 268-318                                *)
(***************************************************************************)
\* Faulty variant of relu: the mask is not inverted, v & (v >> 31).
relu_unmasked(v) == And32Mask(v, Sar32(v, 31))

\* v & ~(v >> 31), lines 253 and 282-285: the branchless ReLU.
relu(v) == And32Mask(v, Not32(Sar32(v, 31)))

\* (int8_t)((r * recip) >> 16), lines 265 and 313-316.  r <= max_val and
\* recip <= (127 << 16) / max_val, so the int32_t product does not overflow.
rescale(r, recip) == ToInt8(Sar32(r * recip, 16))

\* The bias+ReLU pass, lines 250-257.
RECURSIVE fused_pass(_, _, _, _, _)
fused_pass(raw, bias, size, k, max_val) ==
  IF k >= size THEN [raw |-> raw, max_val |-> max_val]
  ELSE LET v == relu(Add32(At(raw, k), At(bias, k)))
       IN  fused_pass([raw EXCEPT ![k + 1] = v], bias, size, k + 1,
                      IF v > max_val THEN v ELSE max_val)

\* Returns [raw |-> raw after the call, out |-> the int8_t outputs,
\*          max_val |-> the divisor, divs |-> the denominators soft_div got].
fused_bias_relu_rescale(raw, bias, size) ==
  LET p == fused_pass(raw, bias, size, 0, 0)
  IN  IF p.max_val = 0
      THEN [raw |-> p.raw, out |-> [j \in 1..size |-> 0],
            max_val |-> p.max_val, divs |-> <<>>]
      ELSE LET recip == soft_div(127 * (2 ^ 16), p.max_val)
           IN  [raw |-> p.raw,
                out |-> [j \in 1..size |-> rescale(p.raw[j], recip)],
                max_val |-> p.max_val, divs |-> <<p.max_val>>]

\* The bias+ReLU pass of the batched kernel, lines 273-300: raw is the tuple
\* raw0..raw3, max the tuple max0..max3.
RECURSIVE fused4_pass(_, _, _, _, _)
fused4_pass(raw, bias, size, k, max) ==
  IF k >= size THEN [raw |-> raw, max |-> max]
  ELSE LET b == At(bias, k)
           v == [l \in 1..4 |-> relu(Add32(At(raw[l], k), b))]
       IN  fused4_pass([l \in 1..4 |-> [raw[l] EXCEPT ![k + 1] = v[l]]],
                       bias, size, k + 1,
                       [l \in 1..4 |-> IF v[l] > max[l] THEN v[l] ELSE max[l]])

\* Faulty variant of fused4_recip: the reciprocal of the wrong scale, 127 << 15.
fused4_recip_q15(nz, max) == IF nz THEN soft_div(127 * (2 ^ 15), max) ELSE 0

\* recip0..3, lines 307-310.
fused4_recip(nz, max) == IF nz THEN soft_div(127 * (2 ^ 16), max) ELSE 0

\* One output element, lines 313-316.
fused4_out(nz, r, recip) == IF nz THEN rescale(r, recip) ELSE 0

\* The output loop for one lane, lines 312-317.
fused4_lane(nz, raw_l, recip, size) ==
  [j \in 1..size |-> fused4_out(nz, raw_l[j], recip)]

\* Returns [raw |-> raw0..3 after the call, out |-> out0..3].
fused_bias_relu_rescale_4(raw, bias, size) ==
  LET p == fused4_pass(raw, bias, size, 0, [l \in 1..4 |-> 0])
  IN  [raw |-> p.raw,
       out |-> [l \in 1..4 |->
                  fused4_lane(p.max[l] # 0, p.raw[l],
                              fused4_recip(p.max[l] # 0, p.max[l]), size)]]

\* ---- fused_bias_relu_rescale ----
MaxFuseLen == 2

\* Accumulators and biases whose sums are representable (signed overflow is
\* undefined in C): the largest sum is INT32_MAX.
RawValues == {-5, 0, 3, 4, 65535, 127 * (2 ^ 16), 127 * (2 ^ 16) + 1, INT32_MAX - 2}

FuseBiasValues == {-3, 0, 2}

InitFuse ==
  /\ \E n \in 1..MaxFuseLen :
       call \in [fn : {"fused_bias_relu_rescale"}, st : {"args"},
                 raw : [1..n -> RawValues], bias : [1..n -> FuseBiasValues],
                 size : {n}]
  /\ MainIdle

CallFused ==
  /\ call.fn = "fused_bias_relu_rescale" /\ call.st = "args"
  /\ \E r \in {fused_bias_relu_rescale(call.raw, call.bias, call.size)} :
       call' = [fn |-> "fused_bias_relu_rescale", st |-> "ret",
                raw |-> call.raw, bias |-> call.bias, size |-> call.size,
                rawout |-> r.raw, out |-> r.out, max_val |-> r.max_val,
                divs |-> r.divs]
  /\ UNCHANGED mainVars

SpecFuse == InitFuse /\ [][CallFused]_vars

Max2(a, b) == IF a >= b THEN a ELSE b

\* C6: the divisor max_val is never negative; when every raw[i] + bias[i] is
\* <= 0 the outputs are all zero and soft_div is not called; soft_div is
\* never called with 0; raw[i] ends as max(raw[i] + bias[i], 0).
C6_Divisor ==
  Returned("fused_bias_relu_rescale") =>
    LET sum == [j \in 1..call.size |-> Add32(call.raw[j], call.bias[j])]
    IN  /\ call.max_val >= 0
        /\ (\A j \in 1..call.size : sum[j] <= 0) =>
             /\ call.max_val = 0
             /\ \A j \in 1..call.size : call.out[j] = 0
             /\ call.divs = <<>>
        /\ \A d \in 1..Len(call.divs) : call.divs[d] # 0
        /\ \A j \in 1..call.size : call.rawout[j] = Max2(sum[j], 0)

\* Every sum is <= 0 although a raw value is positive.
C6_Witness ==
  /\ Returned("fused_bias_relu_rescale") /\ call.size = 2
  /\ call.raw = <<3, -5>> /\ call.bias = <<-3, 2>>
  /\ call.out = <<0, 0>> /\ call.divs = <<>>

\* C7 as stated: whenever some raw[i] + bias[i] is > 0, every output lies in
\* [0, 127] and the largest output is 127, or within rounding of it (126).
C7_MaxIs127 ==
  (Returned("fused_bias_relu_rescale") /\ call.max_val > 0) =>
    /\ \A j \in 1..call.size : call.out[j] >= 0 /\ call.out[j] <= 127
    /\ \E j \in 1..call.size : call.out[j] >= 126

\* What does hold of the outputs: they lie in [0, 127].
C7_OutRange ==
  Returned("fused_bias_relu_rescale") =>
    \A j \in 1..call.size : call.out[j] >= 0 /\ call.out[j] <= 127

\* ---- fused_bias_relu_rescale_4 ----
MaxFuse4Len == 2

Raw4Values == {-1, 3}

\* With these biases a lane's maximum is 0, 3, just below 127 << 16 (recip 1)
\* or just above it (recip 0).
Fuse4BiasValues == {0, 127 * (2 ^ 16) - 2}

InitFuse4 ==
  /\ \E n \in 1..MaxFuse4Len :
       call \in [fn : {"fused_bias_relu_rescale_4"}, st : {"args"},
                 raw : [1..4 -> [1..n -> Raw4Values]],
                 bias : [1..n -> Fuse4BiasValues], size : {n}]
  /\ MainIdle

CallFused4 ==
  /\ call.fn = "fused_bias_relu_rescale_4" /\ call.st = "args"
  /\ \E r \in {fused_bias_relu_rescale_4(call.raw, call.bias, call.size)} :
       call' = [fn |-> "fused_bias_relu_rescale_4", st |-> "ret",
                raw |-> call.raw, bias |-> call.bias, size |-> call.size,
                rawout |-> r.raw, out |-> r.out]
  /\ UNCHANGED mainVars

SpecFuse4 == InitFuse4 /\ [][CallFused4]_vars

\* C8: the batched kernel leaves in raw_j and out_j what the scalar kernel
\* leaves when called on lane j alone.
C8_BatchedEqualsScalar ==
  Returned("fused_bias_relu_rescale_4") =>
    \A l \in 1..4 :
      LET r == fused_bias_relu_rescale(call.raw[l], call.bias, call.size)
      IN  call.rawout[l] = r.raw /\ call.out[l] = r.out

\* Lane 0 has maximum 0 (no division, all outputs 0); lanes 1 to 3 have
\* maximum 3 at different positions.
C8_Witness ==
  /\ Returned("fused_bias_relu_rescale_4") /\ call.size = 2
  /\ call.bias = <<0, 0>>
  /\ call.raw = << <<-1, -1>>, <<3, -1>>, <<-1, 3>>, <<3, 3>> >>
  /\ call.rawout = << <<0, 0>>, <<3, 0>>, <<0, 3>>, <<3, 3>> >>
  /\ call.out = << <<0, 0>>, <<126, 0>>, <<0, 126>>, <<126, 126>> >>

(***************************************************************************)
(* main, lines 427-517, with layer_dense_4x4, lines 190-225, and           *)
(* run_accelerator_4x4, lines 163-174.  One action per statement group;    *)
(* every volatile access of the driver (a STATUS poll, a register write,   *)
(* the result reads of a tile) is a step of its own.                       *)
(*                                                                         *)
(* The accelerator's results are outside the program, so the accumulators  *)
(* are not carried: a comparison's outcome (prediction = label) is chosen  *)
(* when the comparison is made.  Each label and each prediction is read    *)
(* once, so this is every outcome a data table can produce.                *)
(***************************************************************************)
INPUT_SIZE == 784
HIDDEN_SIZE == 128
OUTPUT_SIZE == 10
BATCH_SIZE == 4
FC2_ROWS == 12

\* NUM_TEST_IMAGES ranges over 1..MaxN.
MaxN == 13

\* The rows M and the depth K main passes to layer_dense_4x4, lines 464, 484.
LayerM(l) == IF l = 1 THEN HIDDEN_SIZE ELSE FC2_ROWS
LayerK(l) == IF l = 1 THEN INPUT_SIZE ELSE HIDDEN_SIZE
LayerW(l) == IF l = 1 THEN "fc1_W_hw" ELSE "fc2_W_hw"

\* Faulty variant of Blocks: one block too many.
BlocksPlusOne(M) == M \div 4 + 1

\* blocks, line 193.
Blocks(M) == (M + 3) \div 4

\* batch, lines 451-452.
BatchOf(n, k) == IF n - k >= BATCH_SIZE THEN BATCH_SIZE ELSE n - k

\* in_ptrs, lines 455-460: lane b points at sample k + b, an unused lane at
\* sample k.
InPtrs(k, bt) == [b \in 0..(BATCH_SIZE - 1) |-> IF b < bt THEN k + b ELSE k]

\* Faulty variant of ComparedLanes: all four lanes whatever the batch.
ComparedLanesAll(bt) == 0..3

\* The lanes whose prediction is compared to a label, lines 491-498 (all four
\* when batch == 4) and 500-505 (b < batch).
ComparedLanes(bt) == IF bt = 4 THEN 0..3 ELSE 0..(bt - 1)

\* The order run_accelerator_4x4 writes the configuration registers in.
CfgOrder ==
  <<"W_ADDR", "X_ADDR", "M_DIM", "N_DIM", "K_DIM", "X_STRIDE", "K_ROW_LEN">>

\* Faulty variant of CfgValue: M_DIM is the number of real rows the block
\* covers, 2 for the last block of the 10-row layer.
CfgValueRealRows(name, l, b) ==
  CASE name = "W_ADDR" -> <<LayerW(l), b * (LayerK(l) * 4)>>
    [] name = "X_ADDR" -> <<"input_batch_hw", 0>>
    [] name = "M_DIM" ->
         IF l = 2 /\ 4 * (b + 1) > OUTPUT_SIZE THEN OUTPUT_SIZE - 4 * b ELSE 4
    [] name = "N_DIM" -> 4
    [] name = "K_DIM" -> LayerK(l)
    [] name = "X_STRIDE" -> 16
    [] name = "K_ROW_LEN" -> (LayerK(l) + 3) \div 4

\* The value run_accelerator_4x4(w_ptr, X_packed, 4, 4, K) writes to a
\* register, lines 166-172, for tile b of layer l (w_ptr: line 204).
\* Addresses are a buffer and a byte offset into it.
CfgValue(name, l, b) ==
  CASE name = "W_ADDR" -> <<LayerW(l), b * (LayerK(l) * 4)>>
    [] name = "X_ADDR" -> <<"input_batch_hw", 0>>
    [] name = "M_DIM" -> 4
    [] name = "N_DIM" -> 4
    [] name = "K_DIM" -> LayerK(l)
    [] name = "X_STRIDE" -> 16
    [] name = "K_ROW_LEN" -> (LayerK(l) + 3) \div 4

\* Faulty variant of tohost_value: the count of wrong predictions itself.
tohost_value_count(num_wrong) == IF num_wrong = 0 THEN 1 ELSE num_wrong

\* The word main writes to CSR 0x51e, lines 509-513.
tohost_value(num_wrong) == IF num_wrong = 0 THEN 1 ELSE num_wrong + 1

\* What the simulation harness makes of the CSR, sim_main.cpp lines 226-236.
SimVerdict(csr_val) ==
  IF csr_val = 1 THEN "PASSED" ELSE IF csr_val > 1 THEN "FAILED" ELSE "running"

Init ==
  /\ call = NoCall
  /\ pc = "pack_fc1"
  /\ N \in 1..MaxN
  /\ i = 0 /\ batch = 0 /\ in_ptrs = InPtrs(0, 0) /\ correct = 0
  /\ layer = 0 /\ blk = 0 /\ cfg = <<>>
  /\ regs = [r \in {CfgOrder[k] : k \in 1..7} |-> 0]
  /\ done = FALSE /\ full = FALSE /\ busy = FALSE
  /\ packs = [fc1_W_hw |-> 0, fc2_W_hw |-> 0]
  /\ batches = 0 /\ tiles = 0 /\ nwrites = 0
  /\ cmps = <<>> /\ stages = <<>> /\ tohost = <<>>

accelVars == <<regs, done, full, busy>>
driverVars == <<layer, blk, cfg>>
tallyVars == <<i, batch, in_ptrs, correct, batches, cmps>>

\* Lines 433-436: the 32 blocks of fc1_W_hw.
PackFc1 ==
  /\ pc = "pack_fc1"
  /\ packs' = [packs EXCEPT !.fc1_W_hw = @ + 1]
  /\ pc' = "pack_fc2"
  /\ UNCHANGED <<call, N, tallyVars, driverVars, accelVars, tiles, nwrites,
                 stages, tohost>>

\* Faulty variant of PackFc2: the second packing loop is missing.
PackFc2Missing ==
  /\ pc = "pack_fc2"
  /\ pc' = "loop"
  /\ UNCHANGED <<call, N, tallyVars, driverVars, accelVars, packs, tiles,
                 nwrites, stages, tohost>>

\* Lines 439-449: the 3 blocks of fc2_W_hw, the row pointers, correct = 0.
PackFc2 ==
  /\ pc = "pack_fc2"
  /\ packs' = [packs EXCEPT !.fc2_W_hw = @ + 1]
  /\ pc' = "loop"
  /\ UNCHANGED <<call, N, tallyVars, driverVars, accelVars, tiles, nwrites,
                 stages, tohost>>

\* Lines 450-465: the loop test succeeds; batch, in_ptrs, pack_input_batch,
\* and the call of layer_dense_4x4 for layer 1.
BeginBatch ==
  /\ pc = "loop" /\ i < N
  /\ batch' = BatchOf(N, i)
  /\ in_ptrs' = InPtrs(i, BatchOf(N, i))
  /\ batches' = batches + 1
  /\ stages' = <<"pack_inputs", "layer1">>
  /\ layer' = 1 /\ blk' = 0
  /\ pc' = "tile_loop"
  /\ UNCHANGED <<call, N, i, correct, cmps, cfg, accelVars, packs, tiles,
                 nwrites, tohost>>

\* Line 450: the loop test fails.
EndLoop ==
  /\ pc = "loop" /\ ~(i < N)
  /\ pc' = "report"
  /\ UNCHANGED <<call, N, tallyVars, driverVars, accelVars, packs, tiles,
                 nwrites, stages, tohost>>

\* Line 196: the tile loop's test; on exit layer_dense_4x4 returns to main.
TileLoop ==
  /\ pc = "tile_loop"
  /\ pc' = IF blk < Blocks(LayerM(layer)) THEN "poll_full"
           ELSE IF layer = 1 THEN "quantize" ELSE "classify"
  /\ UNCHANGED <<call, N, tallyVars, driverVars, accelVars, packs, tiles,
                 nwrites, stages, tohost>>

\* Lines 200-202: one read of STATUS; the loop repeats while bit 2 is set.
PollFull ==
  /\ pc = "poll_full"
  /\ IF full THEN UNCHANGED <<pc, cfg>>
     ELSE pc' = "write_cfg" /\ cfg' = <<>>
  /\ UNCHANGED <<call, N, tallyVars, layer, blk, accelVars, packs, tiles,
                 nwrites, stages, tohost>>

\* Lines 166-172: the next configuration register write.
WriteCfg ==
  /\ pc = "write_cfg" /\ Len(cfg) < Len(CfgOrder)
  /\ LET name == CfgOrder[Len(cfg) + 1]
     IN  /\ regs' = [regs EXCEPT ![name] = CfgValue(name, layer, blk)]
         /\ cfg' = Append(cfg, name)
  /\ nwrites' = nwrites + 1
  /\ UNCHANGED <<call, pc, N, tallyVars, layer, blk, done, full, busy, packs,
                 tiles, stages, tohost>>

\* Faulty variant of WriteStart: after CTRL = 1 the driver goes straight to
\* the next tile, neither polling for done nor reading the results.
WriteStartPipelined ==
  /\ pc = "write_cfg" /\ Len(cfg) = Len(CfgOrder)
  /\ busy' = TRUE /\ done' = FALSE
  /\ tiles' = tiles + 1
  /\ nwrites' = nwrites + 1
  /\ blk' = blk + 1
  /\ pc' = "tile_loop"
  /\ UNCHANGED <<call, N, tallyVars, layer, cfg, regs, full, packs, stages,
                 tohost>>

\* Faulty variant of WriteStart: CTRL = 1 as soon as the five registers of
\* the older register map are written, X_STRIDE and K_ROW_LEN still missing.
WriteStartEarly ==
  /\ pc = "write_cfg" /\ Len(cfg) >= 5
  /\ busy' = TRUE /\ done' = FALSE
  /\ tiles' = tiles + 1
  /\ nwrites' = nwrites + 1
  /\ pc' = "poll_done"
  /\ UNCHANGED <<call, N, tallyVars, driverVars, regs, full, packs, stages,
                 tohost>>

\* Line 173: CTRL = 1.  The accelerator takes the tile: it is busy and its
\* done bit is clear until the tile completes.
WriteStart ==
  /\ pc = "write_cfg" /\ Len(cfg) = Len(CfgOrder)
  /\ busy' = TRUE /\ done' = FALSE
  /\ tiles' = tiles + 1
  /\ nwrites' = nwrites + 1
  /\ pc' = "poll_done"
  /\ UNCHANGED <<call, N, tallyVars, driverVars, regs, full, packs, stages,
                 tohost>>

\* Faulty variant of PollDone: a poll that finds bit 1 clear may give up and
\* go to the report.
PollDoneTimeout ==
  /\ pc = "poll_done"
  /\ pc' \in (IF done THEN {"read_results"} ELSE {"poll_done", "report"})
  /\ UNCHANGED <<call, N, tallyVars, driverVars, accelVars, packs, tiles,
                 nwrites, stages, tohost>>

\* Faulty variant of PollDone: STATUS is read once and the driver goes on
\* whatever bit 1 was.
PollDoneOnce ==
  /\ pc = "poll_done"
  /\ pc' = "read_results"
  /\ UNCHANGED <<call, N, tallyVars, driverVars, accelVars, packs, tiles,
                 nwrites, stages, tohost>>

\* Lines 209-211: one read of STATUS; the loop repeats until bit 1 is set.
PollDone ==
  /\ pc = "poll_done"
  /\ pc' = IF done THEN "read_results" ELSE pc
  /\ UNCHANGED <<call, N, tallyVars, driverVars, accelVars, packs, tiles,
                 nwrites, stages, tohost>>

\* Lines 214-224: the tile's results are read into outputs; next tile.
ReadResults ==
  /\ pc = "read_results"
  /\ blk' = blk + 1
  /\ pc' = "tile_loop"
  /\ UNCHANGED <<call, N, tallyVars, layer, cfg, accelVars, packs, tiles,
                 nwrites, stages, tohost>>

\* Lines 467-475: fused_bias_relu_rescale_4, or the scalar kernel per lane.
Quantize ==
  /\ pc = "quantize"
  /\ stages' = Append(stages, "quantize")
  /\ pc' = "pack_act"
  /\ UNCHANGED <<call, N, tallyVars, driverVars, accelVars, packs, tiles,
                 nwrites, tohost>>

\* Lines 478-484: pack_input_batch of l1_q and the call of layer_dense_4x4
\* for layer 2.
PackAct ==
  /\ pc = "pack_act"
  /\ stages' = stages \o <<"pack_activations", "layer2">>
  /\ layer' = 2 /\ blk' = 0
  /\ pc' = "tile_loop"
  /\ UNCHANGED <<call, N, tallyVars, cfg, accelVars, packs, tiles, nwrites,
                 tohost>>

\* Lines 486-506 and the loop's i += BATCH_SIZE: bias+argmax, then one
\* comparison per compared lane; hits are the lanes whose prediction equals
\* expected_labels[i + b].
Classify ==
  /\ pc = "classify"
  /\ \E hits \in SUBSET ComparedLanes(batch) :
       correct' = correct + Cardinality(hits)
  /\ cmps' = cmps \o [k \in 1..Cardinality(ComparedLanes(batch)) |->
                        [sample |-> i + (k - 1), lane |-> k - 1]]
  /\ stages' = stages \o <<"argmax", "compare">>
  /\ i' = i + BATCH_SIZE
  /\ layer' = 0
  /\ pc' = "loop"
  /\ UNCHANGED <<call, N, batch, in_ptrs, batches, blk, cfg, accelVars, packs,
                 tiles, nwrites, tohost>>

\* Lines 509-513: the status word.
Report ==
  /\ pc = "report"
  /\ tohost' = Append(tohost, tohost_value(N - correct))
  /\ pc' = "spin"
  /\ UNCHANGED <<call, N, tallyVars, driverVars, accelVars, packs, tiles,
                 nwrites, stages>>

\* Lines 515-516: for (;;) nop.
Spin ==
  /\ pc = "spin"
  /\ UNCHANGED vars

\* The accelerator completes the tile it was started on: done is set.
AccelFinish ==
  /\ busy
  /\ busy' = FALSE /\ done' = TRUE
  /\ UNCHANGED <<call, pc, N, tallyVars, driverVars, regs, full, packs, tiles,
                 nwrites, stages, tohost>>

\* The accelerator's FIFO fills while it works on a tile.
AccelFill ==
  /\ busy /\ ~full
  /\ full' = TRUE
  /\ UNCHANGED <<call, pc, N, tallyVars, driverVars, regs, done, busy, packs,
                 tiles, nwrites, stages, tohost>>

\* The accelerator's FIFO drains.
AccelDrain ==
  /\ full
  /\ full' = FALSE
  /\ UNCHANGED <<call, pc, N, tallyVars, driverVars, regs, done, busy, packs,
                 tiles, nwrites, stages, tohost>>

Driver ==
  \/ TileLoop \/ PollFull \/ WriteCfg \/ WriteStart \/ PollDone \/ ReadResults

Accelerator == AccelFinish \/ AccelFill \/ AccelDrain

Next ==
  \/ PackFc1 \/ PackFc2 \/ BeginBatch \/ EndLoop \/ Driver \/ Quantize
  \/ PackAct \/ Classify \/ Report \/ Spin \/ Accelerator

Spec == Init /\ [][Next]_vars

\* Batches a dataset of n samples takes: ceil(n / 4).
BatchCount(n) == (n + BATCH_SIZE - 1) \div BATCH_SIZE

\* main is inside a batch (between BeginBatch and Classify).
InBatch ==
  pc \in {"tile_loop", "poll_full", "write_cfg", "poll_done", "read_results",
          "quantize", "pack_act", "classify"}

\* C9: main runs ceil(N/4) batches and makes N comparisons, the k-th of
\* sample k; inside a batch the lanes beyond `batch` point at the batch's
\* first sample, and no comparison is made for them, so the tally never
\* exceeds the comparisons made.
C9_Batches ==
  /\ \A k \in 1..Len(cmps) :
       /\ cmps[k].sample = k - 1 /\ cmps[k].sample < N
       /\ cmps[k].lane = (k - 1) % BATCH_SIZE
  /\ correct <= Len(cmps)
  /\ batches <= BatchCount(N)
  /\ InBatch =>
       /\ batch >= 1 /\ batch <= BATCH_SIZE /\ batch = BatchOf(N, i)
       /\ \A b \in 0..(BATCH_SIZE - 1) :
            in_ptrs[b] = IF b < batch THEN i + b ELSE i
       /\ Len(cmps) = i
  /\ pc \in {"report", "spin"} =>
       /\ batches = BatchCount(N)
       /\ Len(cmps) = N

\* N = 13: 4 batches and 13 comparisons; the last batch had one real lane.
C9_Witness ==
  /\ N = 13 /\ pc = "spin" /\ batches = 4 /\ Len(cmps) = 13
  /\ batch = 1 /\ in_ptrs = InPtrs(12, 1) /\ correct = 12

\* C10: the status register is written once, after the last batch, with 1
\* when correct = N and with (wrong predictions + 1) otherwise, never with
\* 0; once main spins, nothing is written any more.
C10_Report ==
  /\ [](/\ Len(tohost) <= 1
        /\ (tohost # <<>>) <=> (pc = "spin")
        /\ (pc = "spin") =>
             /\ i >= N /\ batches = BatchCount(N)
             /\ tohost[1] = (IF correct = N THEN 1 ELSE (N - correct) + 1)
             /\ tohost[1] # 0
             /\ SimVerdict(tohost[1]) =
                  (IF correct = N THEN "PASSED" ELSE "FAILED"))
  /\ [][pc = "spin" =>
          /\ pc' = "spin" /\ tohost' = tohost
          /\ nwrites' = nwrites /\ regs' = regs /\ tiles' = tiles]_vars

\* Three of thirteen predictions were wrong: the harness reads 4.
C10_Witness ==
  /\ pc = "spin" /\ N = 13 /\ correct = 10 /\ tohost = <<4>>

\* The seven configuration registers of the accelerator, lines 83-89.
ConfigRegisters ==
  {"W_ADDR", "X_ADDR", "M_DIM", "N_DIM", "K_DIM", "X_STRIDE", "K_ROW_LEN"}

\* The registers written so far for the current tile.
Written == {cfg[k] : k \in 1..Len(cfg)}

\* C11: the configuration of a tile is written only after a poll that saw
\* STATUS.full clear; CTRL = 1 is written only when all seven configuration
\* registers have been written for that tile, each once, and hold the tile's
\* values.
C11_ConfigBeforeStart ==
  /\ [](pc = "write_cfg" =>
          /\ Written \subseteq ConfigRegisters
          /\ Cardinality(Written) = Len(cfg))
  /\ [][(pc' = "write_cfg" /\ pc # "write_cfg") =>
          (pc = "poll_full" /\ ~full /\ cfg' = <<>>)]_vars
  /\ [][tiles' # tiles =>
          /\ tiles' = tiles + 1
          /\ pc = "write_cfg" /\ pc' = "poll_done"
          /\ Written = ConfigRegisters
          /\ \A name \in ConfigRegisters :
               regs[name] = CfgValue(name, layer, blk)]_vars

\* The last tile of layer 2 of the fourth batch has just been started.
C11_Witness ==
  /\ pc = "poll_done" /\ tiles = 140 /\ layer = 2 /\ blk = 2
  /\ Written = ConfigRegisters /\ busy
  /\ regs["K_ROW_LEN"] = 32 /\ regs["X_STRIDE"] = 16

\* C12: the RESULT registers of a tile are read only after a poll that saw
\* STATUS.done set, and that poll is made after the tile's START write: the
\* driver polls for done only from the START on, leaves the poll only on
\* done, and reads results (blk advances) only from there.
C12_DoneBeforeRead ==
  /\ [][(pc' = "poll_done" /\ pc # "poll_done") =>
          (pc = "write_cfg" /\ tiles' = tiles + 1)]_vars
  /\ [][(pc' = "read_results" /\ pc # "read_results") =>
          (pc = "poll_done" /\ done /\ tiles' = tiles)]_vars
  /\ [][(blk' # blk /\ blk' # 0) =>
          (pc = "read_results" /\ blk' = blk + 1 /\ tiles' = tiles)]_vars
  /\ [](pc = "read_results" => (layer \in {1, 2} /\ blk < Blocks(LayerM(layer))))

\* The driver has seen done for the last tile of layer 1 and is about to read
\* its results.
C12_Witness ==
  /\ pc = "read_results" /\ done /\ layer = 1 /\ blk = 31 /\ tiles = 32

\* main is inside layer_dense_4x4.
InDriver ==
  pc \in {"tile_loop", "poll_full", "write_cfg", "poll_done", "read_results"}

\* Tiles whose results the driver has read: 35 per finished batch, the 32 of
\* layer 1 once layer 2 runs, and blk of the running layer.
TilesRead ==
  (batches - 1) * (Blocks(HIDDEN_SIZE) + Blocks(FC2_ROWS))
    + (IF layer = 2 THEN Blocks(HIDDEN_SIZE) ELSE 0) + blk

\* C13: from a tile's CTRL = 1 to the poll that sees its done bit the driver
\* writes no accelerator register; at most one tile is outstanding, and a
\* register is written only when none is: after the previous tile's done was
\* seen, its results were read and a poll saw STATUS.full clear.
C13_OneTileOutstanding ==
  /\ [][pc = "poll_done" =>
          /\ nwrites' = nwrites /\ regs' = regs /\ tiles' = tiles
          /\ pc' # "poll_done" => (done /\ pc' = "read_results")]_vars
  /\ [][nwrites' # nwrites =>
          /\ pc = "write_cfg" /\ nwrites' = nwrites + 1
          /\ tiles = TilesRead /\ ~busy]_vars
  /\ [][(pc' = "poll_full" /\ pc # "poll_full") => pc = "tile_loop"]_vars
  /\ [][(pc' = "tile_loop" /\ pc # "tile_loop") =>
          \/ pc = "read_results" /\ blk' = blk + 1
          \/ pc \in {"loop", "pack_act"} /\ blk' = 0]_vars
  /\ [](/\ busy => pc = "poll_done"
        /\ InDriver =>
             tiles = TilesRead + (IF pc \in {"poll_done", "read_results"}
                                  THEN 1 ELSE 0))

\* The configuration of tile 1 of layer 2 is being written; tile 0 is done
\* and read.
C13_Witness ==
  /\ pc = "write_cfg" /\ layer = 2 /\ blk = 1 /\ Len(cfg) = 3
  /\ tiles = 33 /\ TilesRead = 33 /\ ~busy /\ done

\* What a stalled driver leaves alone: it starts no tile, writes no
\* accelerator register and does not report.
Stalled == tiles' = tiles /\ nwrites' = nwrites /\ tohost' = tohost

\* C14: there is no way out of a poll but the awaited bit: while done is
\* clear the driver stays in the done poll, while full is set it stays in
\* the full poll, and in both it starts no tile and writes nothing; if done
\* stays clear (full stays set) for ever, the driver polls for ever and the
\* status register is never written.
C14_NoTimeout ==
  /\ [][(pc = "poll_done" /\ ~done) => (pc' = "poll_done" /\ Stalled)]_vars
  /\ [][(pc = "poll_full" /\ full) => (pc' = "poll_full" /\ Stalled)]_vars
  /\ []((pc = "poll_done" /\ [](~done)) =>
          [](pc = "poll_done" /\ tohost = <<>>))
  /\ []((pc = "poll_full" /\ []full) =>
          [](pc = "poll_full" /\ tohost = <<>>))

\* The driver polls for the done bit of the first tile, which is not set.
C14_Witness ==
  /\ pc = "poll_done" /\ ~done /\ busy /\ full /\ tiles = 1 /\ tohost = <<>>

\* ceil(n / 4).
Ceil4(n) == (n + 3) \div 4

\* The register file C15 expects for tile b of a layer of depth K whose
\* packed weights are buffer W.
TileConfig(W, K, b) ==
  [W_ADDR |-> <<W, b * 4 * K>>, X_ADDR |-> <<"input_batch_hw", 0>>,
   M_DIM |-> 4, N_DIM |-> 4, K_DIM |-> K, X_STRIDE |-> 16,
   K_ROW_LEN |-> Ceil4(K)]

\* C15: layer 1 (M = 128, K = 784) takes 32 tiles and layer 2 (M = 12 for 10
\* real rows, K = 128) takes 3, in block order 0, 1, 2, ...; when tile blk is
\* started the registers hold M_DIM = N_DIM = 4, K_DIM = K, X_STRIDE = 16,
\* K_ROW_LEN = ceil(K/4), X_ADDR = the packed inputs and W_ADDR = the packed
\* weights + blk*4*K, also for the last block of layer 2.
C15_TileConfig ==
  /\ [][tiles' # tiles =>
          /\ layer \in {1, 2}
          /\ blk < (IF layer = 1 THEN Ceil4(128) ELSE Ceil4(12))
          /\ blk' = blk
          /\ regs = (IF layer = 1 THEN TileConfig("fc1_W_hw", 784, blk)
                     ELSE TileConfig("fc2_W_hw", 128, blk))]_vars
  /\ [][blk' # blk => (blk' = blk + 1 \/ blk' = 0)]_vars
  /\ [][(pc = "tile_loop" /\ pc' \notin {"tile_loop", "poll_full"}) =>
          /\ layer = 1 => (blk = 32 /\ pc' = "quantize")
          /\ layer = 2 => (blk = 3 /\ pc' = "classify")]_vars
  /\ [](InDriver =>
          tiles = TilesRead + (IF pc \in {"poll_done", "read_results"}
                               THEN 1 ELSE 0))

\* The last block of layer 2 (rows 8..11, two of them real) is started as a
\* full 4x4 tile.
C15_Witness ==
  /\ pc = "poll_done" /\ layer = 2 /\ blk = 2
  /\ regs = TileConfig("fc2_W_hw", 128, 2)
  /\ regs["M_DIM"] = 4 /\ regs["W_ADDR"] = <<"fc2_W_hw", 1024>>
  /\ regs["K_ROW_LEN"] = 32

\* The stages of a batch in the order C16 gives.
StageOrder ==
  <<"pack_inputs", "layer1", "quantize", "pack_activations", "layer2",
    "argmax", "compare">>

\* C16: each packed weight buffer is filled once, before the first batch
\* and the first tile, and never again; the stages of a batch run in the
\* order of StageOrder, the tiles of layer 1 and of layer 2 at their places
\* in it; a batch begins only when the batch before it has run every stage
\* and its comparisons are in the tally.
C16_StageOrder ==
  /\ [](/\ packs["fc1_W_hw"] <= 1 /\ packs["fc2_W_hw"] <= 1
        /\ (batches > 0 \/ tiles > 0) =>
             (packs["fc1_W_hw"] = 1 /\ packs["fc2_W_hw"] = 1)
        /\ Len(stages) <= Len(StageOrder)
        /\ stages = SubSeq(StageOrder, 1, Len(stages)))
  /\ [][packs' # packs => (batches = 0 /\ tiles = 0 /\ stages = <<>>)]_vars
  /\ [][tiles' # tiles =>
          stages = SubSeq(StageOrder, 1, IF layer = 1 THEN 2 ELSE 5)]_vars
  /\ [][batches' # batches =>
          /\ batches' = batches + 1
          /\ stages \in {<<>>, StageOrder}
          /\ (batches = 0) <=> (stages = <<>>)
          /\ Len(cmps) = BATCH_SIZE * batches
          /\ i = BATCH_SIZE * batches
          /\ stages' = SubSeq(StageOrder, 1, 2)]_vars
  /\ [][cmps' # cmps =>
          (stages = SubSeq(StageOrder, 1, 5) /\ stages' = StageOrder)]_vars

\* The third batch is about to begin: two batches ran every stage, eight
\* comparisons were made, each weight buffer was packed once.
C16_Witness ==
  /\ pc = "loop" /\ batches = 2 /\ stages = StageOrder /\ Len(cmps) = 8
  /\ packs["fc1_W_hw"] = 1 /\ packs["fc2_W_hw"] = 1 /\ tiles = 70 /\ N > 8

(***************************************************************************)
(* Liveness.  The core executes main's next statement whenever there is    *)
(* one (a poll that reads the awaited bit in the wrong state changes       *)
(* nothing and is no progress); the accelerator completes every tile it    *)
(* was started on and drains its FIFO.                                     *)
(***************************************************************************)
Program ==
  \/ PackFc1 \/ PackFc2 \/ BeginBatch \/ EndLoop \/ Driver \/ Quantize
  \/ PackAct \/ Classify \/ Report

FairSpec ==
  /\ Spec
  /\ WF_vars(Program)
  /\ WF_vars(AccelFinish)
  /\ WF_vars(AccelDrain)

\* C17: with an accelerator that completes every tile and drains its FIFO,
\* main leaves the batch loop, writes the status register and spins, having
\* started ceil(N/4) * (32 + 3) tiles.
C17_Terminates ==
  /\ <>(pc = "spin" /\ tohost # <<>>)
  /\ [](pc \in {"report", "spin"} =>
          (i >= N /\ tiles = ((N + 3) \div 4) * (32 + 3)))

\* Thirteen samples: 4 batches, 140 tiles, then the report.
C17_Witness ==
  /\ pc = "spin" /\ N = 13 /\ tiles = 140 /\ Len(tohost) = 1 /\ i = 16

====
